---- MODULE Spec2Model ----
(***************************************************************************)
(* Model of the virtio-input device backend                                *)
(* (devicemodel/hw/pci/virtio/virtio_input.c): attach                      *)
(* (virtio_input_init), the virtio_ops handlers, the two queue notify      *)
(* handlers and the readiness callback, together with the host resources   *)
(* they act on (file descriptors, the evdev exclusive grab, the mevent     *)
(* registry, the heap) and the guest side of the two virtqueues.           *)
(***************************************************************************)
EXTENDS Integers, Sequences, FiniteSets, TLC

VARIABLES
    vi,        \* per PCI slot: the struct virtio_input instance, or NoVi
    heap,      \* live heap objects, <<slot, member>>
    fdtab,     \* the process's descriptor table: fd -> open file, or Closed
    grab,      \* per evdev device: the descriptor holding EVIOCGRAB, or -1
    nonblock,  \* per descriptor: O_NONBLOCK set
    mev,       \* mevent registry: the registered [fd, arg] entries
    pci,       \* per slot: what the PCI/virtio framework holds for the device
    trace,     \* per slot: the resource operations virtio_input_init performed
    call,      \* per slot: the options virtio_input_init got and what it returned
    hostev,    \* per evdev device: events generated and not yet read
    produced,  \* per evdev device: every event generated so far
    vq,        \* per slot and queue: guest-posted descriptors and the used ring
    intr,      \* per slot and queue: guest notifications raised
    last,      \* the handler invocation that returned last
    running,   \* per thread: the handler it is running, or Idle
    lock       \* per slot: the thread that holds vi->mtx, or NoOwner

vars == <<vi, heap, fdtab, grab, nonblock, mev, pci, trace, call,
          hostev, produced, vq, intr, last, running, lock>>

----------------------------------------------------------------------------
(* Bounds *)

NumSlots == 2
MaxOptLen == 3
MaxFd == 2
MaxEvents == 11
MaxSyn == 1
MaxAvail == 2
MaxDetach == 2

(* Program constants *)

VIRTIO_INPUT_EVENT_QUEUE == 0
VIRTIO_INPUT_STATUS_QUEUE == 1
VIRTIO_INPUT_MAXQ == 2
VIRTIO_INPUT_RINGSZ == 64
VIRTIO_INPUT_PACKET_SIZE == 10
VIRTIO_F_VERSION_1 == 32
VIRTIO_INPUT_S_HOSTCAPS == {VIRTIO_F_VERSION_1}
VIRTIO_INPUT_CFG_UNSET == 0

----------------------------------------------------------------------------
(* Strings are sequences of characters; a NULL pointer is NULL. *)

Slots == 1..NumSlots
FDs == 0..MaxFd
Queues == {VIRTIO_INPUT_EVENT_QUEUE, VIRTIO_INPUT_STATUS_QUEUE}
Chars == {"a", ","}
Strings == UNION {[1..n -> Chars] : n \in 0..MaxOptLen}
NULL == <<"NULL">>
Closed == <<"CLOSED">>
Stdio == <<"STDIO">>

\* Files of the host: two evdev devices and one file that is no evdev device.
EvdevFiles == {<<"a">>, <<"a", "a">>}
HostFiles == EvdevFiles \cup {<<"a", "a", "a">>}

\* Feature bits a guest may propose.
FeatureBits == {0, VIRTIO_F_VERSION_1}

\* Raw input events: a key event and the synchronization marker.
EV_SYN == [type |-> 0, code |-> 0, value |-> 0]
EV_KEY == [type |-> 1, code |-> 1, value |-> 1]
Events == {EV_SYN, EV_KEY}

\* Descriptor lengths a guest may post.
DescLens == {4, 8}

----------------------------------------------------------------------------
(* strsep(&opts, ","): the token before the first delimiter, and what opts *)
(* points to afterwards (NULL when there was no delimiter).                *)

FirstDelim(s) ==
    IF \E i \in 1..Len(s) : s[i] = ","
    THEN CHOOSE i \in 1..Len(s) : s[i] = "," /\ \A j \in 1..(i-1) : s[j] # ","
    ELSE 0

strsep_token(s) ==
    IF s = NULL THEN NULL
    ELSE IF FirstDelim(s) = 0 THEN s
    ELSE SubSeq(s, 1, FirstDelim(s) - 1)

strsep_rest(s) ==
    IF s = NULL THEN NULL
    ELSE IF FirstDelim(s) = 0 THEN NULL
    ELSE SubSeq(s, FirstDelim(s) + 1, Len(s))

----------------------------------------------------------------------------
(* The instance after calloc: every member zero. *)

NoVi == [alloc |-> FALSE]

ZeroConfig == [select |-> 0, subsel |-> 0, size |-> 0, nonzero |-> {}]

ZeroVi ==
    [alloc |-> TRUE,
     queues |-> [q \in Queues |-> [qsize |-> 0, notify |-> "NULL"]],
     mtx |-> "uninit",
     base_mtx |-> FALSE,
     mevp |-> FALSE,
     features |-> {},
     cfg |-> ZeroConfig,
     evdev |-> NULL,
     serial |-> NULL,
     fd |-> 0,
     ready |-> FALSE,
     event_queue |-> NULL,
     event_qsize |-> 0,
     event_qindex |-> 0]

NoPci == [arg |-> FALSE, cfgdata |-> FALSE, intr |-> FALSE, modern_bar |-> FALSE]

NotCalled == [opts |-> NULL, rc |-> 1, fd |-> -1, called |-> FALSE, deinits |-> 0]

NoCall ==
    [op |-> "none", dev |-> 0, features |-> {},
     offset |-> 0, size |-> 0, val |-> 0, rd |-> "none"]

----------------------------------------------------------------------------
(* Host platform calls used by attach. Each works on a bundle s holding    *)
(* the values of the state variables while virtio_input_init runs.         *)

FreeFds(s) == {f \in FDs : s.fdtab[f] = Closed}

LowestFree(s) == CHOOSE f \in FreeFds(s) : \A g \in FreeFds(s) : f <= g

\* open(path, O_RDWR): the lowest free descriptor, or -1.
open_fd(s, path, ok) ==
    IF ok /\ path \in HostFiles /\ FreeFds(s) # {} THEN LowestFree(s) ELSE -1

\* ioctl(fd, EVIOCGVERSION): only an evdev device answers.
evdev_version_rc(s, fd, ok) ==
    IF ok /\ s.fdtab[fd] \in EvdevFiles THEN 0 ELSE -1

\* ioctl(fd, EVIOCGRAB, 1): refused while another descriptor holds the grab.
evdev_grab_rc(s, fd, ok) ==
    IF ok /\ s.fdtab[fd] \in EvdevFiles /\ s.grab[s.fdtab[fd]] = -1 THEN 0 ELSE -1

\* close(fd): the descriptor is free again and a grab it held is released.
close_fd(s, fd) ==
    [s EXCEPT !.fdtab[fd] = Closed,
              !.nonblock[fd] = FALSE,
              !.grab = [p \in EvdevFiles |-> IF s.grab[p] = fd THEN -1 ELSE s.grab[p]]]

Log(s, d, op) == [s EXCEPT !.trace[d] = Append(@, op)]

----------------------------------------------------------------------------
(* Framework calls used by attach: the event loop and the PCI/virtio       *)
(* framework.                                                              *)

\* mevent_add(fd, EVF_READ, virtio_input_read_event, vi)
mevent_add(s, d) ==
    [s EXCEPT !.mev = @ \cup {[fd |-> s.vi[d].fd, arg |-> d]},
              !.vi[d].mevp = TRUE]

\* mevent_delete(vi->mevp)
mevent_delete(s, d) ==
    [s EXCEPT !.mev = {e \in @ : e.arg # d}]

\* virtio_linkup(&vi->base, &virtio_input_ops, vi, dev, vi->queues)
virtio_linkup(s, d) == [s EXCEPT !.pci[d].arg = TRUE]

\* pci_set_cfgdata16/8(dev, ...)
pci_set_cfgdata(s, d) == [s EXCEPT !.pci[d].cfgdata = TRUE]

\* virtio_interrupt_init(&vi->base, virtio_uses_msix()) succeeding
virtio_interrupt_init(s, d) == [s EXCEPT !.pci[d].intr = TRUE]

\* virtio_set_modern_bar(&vi->base, true) succeeding
virtio_set_modern_bar(s, d) == [s EXCEPT !.pci[d].modern_bar = TRUE]

----------------------------------------------------------------------------
(* virtio_input_init *)

\* The steps of attach at which a failure can be injected by the platform.
FailPoints ==
    {"none", "calloc_vi", "strdup_evdev", "strdup_serial", "open", "version",
     "grab", "calloc_event_queue", "mevent_add", "interrupt_init", "modern_bar"}

\* The path and the serial attach stores for an options string.
evdev_of(opts) == strsep_token(opts)

serial_with_comma(opts) ==
    IF FirstDelim(opts) = 0 THEN NULL
    ELSE SubSeq(opts, FirstDelim(opts), Len(opts))

serial_of(opts) == strsep_rest(opts)

grab_unchecked(rc) == FALSE

\* if (rc < 0) after ioctl(EVIOCGRAB)
grab_refused(rc) == rc < 0

\* The condition under which the fail label closes the descriptor.
fail_closes(fd) == fd > 0

\* The fail label: teardown of what the instance holds, then free(vi).
fail_path(s, d) ==
    LET s1 == IF s.mutex_initialized
              THEN Log([s EXCEPT !.vi[d].mtx = "destroyed"], d, "mutex_destroy")
              ELSE s
        s2 == IF s1.vi[d].event_queue # NULL
              THEN Log([s1 EXCEPT !.vi[d].event_queue = NULL,
                                  !.heap = @ \ {<<d, "event_queue">>}],
                       d, "free_event_queue")
              ELSE s1
        s3 == IF s2.vi[d].mevp
              THEN Log([mevent_delete(s2, d) EXCEPT !.vi[d].mevp = FALSE],
                       d, "mevent_delete")
              ELSE s2
        s4 == IF fail_closes(s3.vi[d].fd)
              THEN Log([close_fd(s3, s3.vi[d].fd) EXCEPT !.vi[d].fd = -1],
                       d, "close")
              ELSE s3
        s5 == IF s4.vi[d].serial # NULL
              THEN Log([s4 EXCEPT !.vi[d].serial = NULL,
                                  !.heap = @ \ {<<d, "serial">>}],
                       d, "free_serial")
              ELSE s4
        s6 == IF s5.vi[d].evdev # NULL
              THEN Log([s5 EXCEPT !.vi[d].evdev = NULL,
                                  !.heap = @ \ {<<d, "evdev">>}],
                       d, "free_evdev")
              ELSE s5
    IN  [Log([s6 EXCEPT !.vi[d] = NoVi, !.heap = @ \ {<<d, "vi">>}], d, "free_vi")
            EXCEPT !.rc = -1]

queue_notify_swapped(q) ==
    IF q = VIRTIO_INPUT_EVENT_QUEUE
    THEN "virtio_input_notify_status_vq"
    ELSE "virtio_input_notify_event_vq"

\* Lines 322-328: the notify handler each queue is bound to.
queue_notify(q) ==
    IF q = VIRTIO_INPUT_EVENT_QUEUE
    THEN "virtio_input_notify_event_vq"
    ELSE "virtio_input_notify_status_vq"

\* Lines 290-344: from the mutex to the return of virtio_set_modern_bar.
init_tail(s, d, inj, mutex_ok) ==
    LET s0 == IF mutex_ok THEN Log(s, d, "mutex_init") ELSE s
        s1 == [s0 EXCEPT !.vi[d].mtx = IF mutex_ok THEN "init" ELSE "uninit",
                         !.mutex_initialized = mutex_ok,
                         !.vi[d].event_qsize = VIRTIO_INPUT_PACKET_SIZE,
                         !.vi[d].event_qindex = 0]
    IN  IF inj = "calloc_event_queue" THEN fail_path(s1, d)
        ELSE
        LET s2 == Log([s1 EXCEPT
                         !.vi[d].event_queue =
                             [i \in 1..s1.vi[d].event_qsize |-> EV_SYN],
                         !.heap = @ \cup {<<d, "event_queue">>}],
                      d, "calloc_event_queue")
        IN  IF inj = "mevent_add" THEN fail_path(s2, d)
            ELSE
            LET s3 == Log(mevent_add(s2, d), d, "mevent_add")
                s4 == [virtio_linkup(s3, d) EXCEPT
                         !.vi[d].base_mtx = TRUE,
                         !.vi[d].queues =
                             [q \in Queues |->
                                [qsize |-> VIRTIO_INPUT_RINGSZ,
                                 notify |-> queue_notify(q)]]]
                s5 == pci_set_cfgdata(s4, d)
            IN  IF inj = "interrupt_init" THEN fail_path(s5, d)
                ELSE
                LET s6 == virtio_interrupt_init(s5, d)
                IN  IF inj = "modern_bar" THEN [s6 EXCEPT !.rc = -1]
                    ELSE [virtio_set_modern_bar(s6, d) EXCEPT !.rc = 0]

\* Lines 244-288: from calloc to the exclusive grab. setfl_ok is the outcome
\* of fcntl(F_SETFL, flags | O_NONBLOCK) at line 276, whose result, like that
\* of fcntl(F_GETFL) at line 275, the code does not look at.
init_head(s, d, opts, inj, mutex_ok, setfl_ok) ==
    IF inj = "calloc_vi" THEN [s EXCEPT !.rc = -1]
    ELSE
    LET s1 == Log([s EXCEPT !.vi[d] = ZeroVi, !.heap = @ \cup {<<d, "vi">>}],
                  d, "calloc_vi")
        opt == evdev_of(opts)
    IN  IF opt = NULL \/ inj = "strdup_evdev" THEN fail_path(s1, d)
        ELSE
        LET s2 == Log([s1 EXCEPT !.vi[d].evdev = opt,
                                 !.heap = @ \cup {<<d, "evdev">>}],
                      d, "strdup_evdev")
            rest == serial_of(opts)
        IN  IF rest # NULL /\ inj = "strdup_serial" THEN fail_path(s2, d)
            ELSE
            LET s3 == IF rest # NULL
                      THEN Log([s2 EXCEPT !.vi[d].serial = rest,
                                          !.heap = @ \cup {<<d, "serial">>}],
                               d, "strdup_serial")
                      ELSE s2
                fd == open_fd(s3, s3.vi[d].evdev, inj # "open")
            IN  IF fd < 0 THEN fail_path([s3 EXCEPT !.vi[d].fd = fd], d)
                ELSE
                LET s4 == Log([s3 EXCEPT !.vi[d].fd = fd,
                                         !.opened = fd,
                                         !.fdtab[fd] = s3.vi[d].evdev,
                                         !.nonblock[fd] = setfl_ok],
                              d, "open")
                IN  IF evdev_version_rc(s4, fd, inj # "version") < 0
                    THEN fail_path(s4, d)
                    ELSE
                    LET rc == evdev_grab_rc(s4, fd, inj # "grab")
                    IN  IF grab_refused(rc) THEN fail_path(s4, d)
                        ELSE
                        LET s5 == IF rc = 0
                                  THEN Log([s4 EXCEPT !.grab[s4.fdtab[fd]] = fd],
                                           d, "grab")
                                  ELSE s4
                        IN  init_tail(s5, d, inj, mutex_ok)

Bundle ==
    [vi |-> vi, heap |-> heap, fdtab |-> fdtab, grab |-> grab,
     nonblock |-> nonblock, mev |-> mev, pci |-> pci, trace |-> trace,
     mutex_initialized |-> FALSE, opened |-> -1, rc |-> 0]

virtio_input_init(d, opts, inj, mutex_ok, setfl_ok) ==
    /\ ~call[d].called
    /\ LET r == IF opts = NULL THEN [Bundle EXCEPT !.rc = -1]
                ELSE init_head(Bundle, d, opts, inj, mutex_ok, setfl_ok)
       IN  /\ vi' = r.vi
           /\ heap' = r.heap
           /\ fdtab' = r.fdtab
           /\ grab' = r.grab
           /\ nonblock' = r.nonblock
           /\ mev' = r.mev
           /\ pci' = r.pci
           /\ trace' = r.trace
           /\ call' = [call EXCEPT ![d] = [opts |-> opts, rc |-> r.rc,
                                           fd |-> r.opened, called |-> TRUE,
                                           deinits |-> 0]]
           /\ last' = [NoCall EXCEPT !.op = "virtio_input_init", !.dev = d]
    /\ UNCHANGED <<hostev, produced, vq, intr>>
    /\ UNCHANGED <<running, lock>>

----------------------------------------------------------------------------
(* The virtio_ops handlers, the queue notify handlers and the readiness    *)
(* callback. The framework dispatches them on a device whose attach        *)
(* returned 0.                                                             *)

Attached(d) == call[d].called /\ call[d].rc = 0

Returned(op, d) == [NoCall EXCEPT !.op = op, !.dev = d]

neg_features_forced(features, negotiated_features) ==
    negotiated_features \cup VIRTIO_INPUT_S_HOSTCAPS

\* vi->features after virtio_input_neg_features(vdev, negotiated_features)
neg_features_result(features, negotiated_features) == features

\* *retval after virtio_input_cfgread(vdev, offset, size, retval), the caller
\* having set it to preset
cfgread_retval(v, offset, size, preset) == preset

\* vi->cfg after virtio_input_cfgwrite(vdev, offset, size, val)
cfgwrite_result(cfg, offset, size, val) == cfg

\* the instance after virtio_input_reset(vdev)
reset_result(v) == v

virtio_input_reset(d) ==
    /\ Attached(d)
    /\ vi' = [vi EXCEPT ![d] = reset_result(@)]
    /\ last' = Returned("virtio_input_reset", d)
    /\ UNCHANGED <<heap, fdtab, grab, nonblock, mev, pci, trace, call,
                   hostev, produced, vq, intr>>
    /\ UNCHANGED <<running, lock>>

virtio_input_neg_features(d, negotiated_features) ==
    /\ Attached(d)
    /\ vi' = [vi EXCEPT ![d].features =
                 neg_features_result(@, negotiated_features)]
    /\ last' = [Returned("virtio_input_neg_features", d)
                   EXCEPT !.features = negotiated_features]
    /\ UNCHANGED <<heap, fdtab, grab, nonblock, mev, pci, trace, call,
                   hostev, produced, vq, intr>>
    /\ UNCHANGED <<running, lock>>

virtio_input_set_status(d, status) ==
    /\ Attached(d)
    /\ last' = [Returned("virtio_input_set_status", d) EXCEPT !.val = status]
    /\ UNCHANGED <<vi, heap, fdtab, grab, nonblock, mev, pci, trace, call,
                   hostev, produced, vq, intr>>
    /\ UNCHANGED <<running, lock>>

virtio_input_cfgread(d, offset, size, preset) ==
    /\ Attached(d)
    /\ last' = [Returned("virtio_input_cfgread", d)
                   EXCEPT !.offset = offset, !.size = size,
                          !.val = cfgread_retval(vi[d], offset, size, preset)]
    /\ UNCHANGED <<vi, heap, fdtab, grab, nonblock, mev, pci, trace, call,
                   hostev, produced, vq, intr>>
    /\ UNCHANGED <<running, lock>>

virtio_input_cfgwrite(d, offset, size, val) ==
    /\ Attached(d)
    /\ vi' = [vi EXCEPT ![d].cfg = cfgwrite_result(@, offset, size, val)]
    /\ last' = [Returned("virtio_input_cfgwrite", d)
                   EXCEPT !.offset = offset, !.size = size, !.val = val]
    /\ UNCHANGED <<heap, fdtab, grab, nonblock, mev, pci, trace, call,
                   hostev, produced, vq, intr>>
    /\ UNCHANGED <<running, lock>>

\* An entry of a used ring: the event written, the bytes written and the
\* length of the descriptor they were written to.
UsedElem(ev, len, cap) == [event |-> ev, len |-> len, cap |-> cap]

notify_event_vq_retries(io) ==
    IF io.hostev # <<>> /\ io.q[VIRTIO_INPUT_EVENT_QUEUE].avail # <<>>
    THEN [io EXCEPT
            !.q[VIRTIO_INPUT_EVENT_QUEUE].used =
                Append(@, UsedElem(Head(io.hostev), 8,
                                   Head(io.q[VIRTIO_INPUT_EVENT_QUEUE].avail))),
            !.q[VIRTIO_INPUT_EVENT_QUEUE].avail = Tail(@),
            !.hostev = Tail(@),
            !.intr[VIRTIO_INPUT_EVENT_QUEUE] = @ + 1]
    ELSE io

\* What the three queue-side handlers leave of the instance, of the
\* device's queues and of its notification count: [v, q, intr, hostev].
notify_event_vq_result(io) == io

notify_status_vq_result(io) == io

read_event_writes_record(io) ==
    IF io.hostev # <<>> /\ io.q[VIRTIO_INPUT_EVENT_QUEUE].avail # <<>>
    THEN [io EXCEPT
            !.q[VIRTIO_INPUT_EVENT_QUEUE].used =
                Append(@, UsedElem(Head(io.hostev), 8,
                                   Head(io.q[VIRTIO_INPUT_EVENT_QUEUE].avail))),
            !.q[VIRTIO_INPUT_EVENT_QUEUE].avail = Tail(@),
            !.hostev = Tail(@)]
    ELSE io

read_event_takes_partial(io) ==
    IF io.rd = "short" /\ io.v.event_qindex < io.v.event_qsize
    THEN [io EXCEPT !.v.event_queue[io.v.event_qindex + 1] = Head(io.hostev),
                    !.v.event_qindex = @ + 1]
    ELSE io

read_event_stages(io) ==
    IF io.rd = "record" /\ io.hostev # <<>> /\ io.v.event_qindex < io.v.event_qsize
    THEN [io EXCEPT !.v.event_queue[io.v.event_qindex + 1] = Head(io.hostev),
                    !.v.event_qindex = @ + 1,
                    !.hostev = Tail(@)]
    ELSE io

read_event_result(io) == io

IoOf(d) ==
    [v |-> vi[d], q |-> vq[d], intr |-> intr[d], rd |-> "none",
     hostev |-> IF vi[d].alloc /\ vi[d].evdev \in EvdevFiles
                THEN hostev[vi[d].evdev] ELSE <<>>]

Handle(d, r) ==
    /\ vi' = [vi EXCEPT ![d] = r.v]
    /\ vq' = [vq EXCEPT ![d] = r.q]
    /\ intr' = [intr EXCEPT ![d] = r.intr]
    /\ hostev' = [p \in EvdevFiles |->
                    IF vi[d].alloc /\ vi[d].evdev = p THEN r.hostev ELSE hostev[p]]
    /\ UNCHANGED <<heap, fdtab, grab, nonblock, mev, pci, trace, call, produced>>

virtio_input_notify_event_vq(d) ==
    /\ Attached(d)
    /\ Handle(d, notify_event_vq_result(IoOf(d)))
    /\ last' = Returned("virtio_input_notify_event_vq", d)
    /\ UNCHANGED <<running, lock>>

virtio_input_notify_status_vq(d) ==
    /\ Attached(d)
    /\ Handle(d, notify_status_vq_result(IoOf(d)))
    /\ last' = Returned("virtio_input_notify_status_vq", d)
    /\ UNCHANGED <<running, lock>>

\* The event loop runs the callback of a registered descriptor that is readable.
Readable(d) ==
    \E e \in mev : /\ e.arg = d
                   /\ fdtab[e.fd] \in EvdevFiles
                   /\ hostev[fdtab[e.fd]] # <<>>

Registered(d) ==
    \E e \in mev : e.arg = d /\ fdtab[e.fd] \in EvdevFiles

\* What a read of the descriptor would give the callback: whole records, a
\* part of one record, nothing (EAGAIN) when no event is unread, or a hard
\* error (the host device is gone), which can come at any time.
ReadOutcomes == {"record", "short", "wouldblock", "error"}

ReadGives(d, rd) ==
    /\ Registered(d)
    /\ rd # "error" => (rd = "wouldblock" <=> ~Readable(d))

virtio_input_read_event(d, rd) ==
    /\ Attached(d)
    /\ ReadGives(d, rd)
    /\ Handle(d, read_event_result([IoOf(d) EXCEPT !.rd = rd]))
    /\ last' = [Returned("virtio_input_read_event", d) EXCEPT !.rd = rd]
    /\ UNCHANGED <<running, lock>>

----------------------------------------------------------------------------
(* virtio_input_deinit. The PCI framework calls it on a device whose       *)
(* attach returned 0.                                                      *)

deinit_unguarded(s, d) ==
    Log(Log(close_fd(mevent_delete(s, d), s.vi[d].fd), d, "mevent_delete"),
        d, "close")

\* The state virtio_input_deinit(ctx, dev, opts) leaves.
deinit_result(s, d) == s

virtio_input_deinit(d) ==
    /\ Attached(d)
    /\ call[d].deinits < MaxDetach
    /\ LET r == deinit_result(Bundle, d)
       IN  /\ vi' = r.vi
           /\ heap' = r.heap
           /\ fdtab' = r.fdtab
           /\ grab' = r.grab
           /\ nonblock' = r.nonblock
           /\ mev' = r.mev
           /\ pci' = r.pci
           /\ trace' = r.trace
    /\ call' = [call EXCEPT ![d].deinits = @ + 1]
    /\ last' = Returned("virtio_input_deinit", d)
    /\ UNCHANGED <<hostev, produced, vq, intr>>
    /\ UNCHANGED <<running, lock>>

----------------------------------------------------------------------------
(* The environment: the host input device and the guest driver. *)

SynCount(s) == Cardinality({i \in 1..Len(s) : s[i] = EV_SYN})

\* An evdev client sees the events generated while it has the device open.
HostProduce(p, ev) ==
    /\ \E f \in FDs : fdtab[f] = p
    /\ Len(produced[p]) < MaxEvents
    /\ ev = EV_SYN => SynCount(produced[p]) < MaxSyn
    /\ hostev' = [hostev EXCEPT ![p] = Append(@, ev)]
    /\ produced' = [produced EXCEPT ![p] = Append(@, ev)]
    /\ last' = [NoCall EXCEPT !.op = "host_event"]
    /\ UNCHANGED <<vi, heap, fdtab, grab, nonblock, mev, pci, trace, call,
                   vq, intr>>
    /\ UNCHANGED <<running, lock>>

GuestPost(d, q, len) ==
    /\ Attached(d)
    /\ Len(vq[d][q].avail) + Len(vq[d][q].used) < MaxAvail
    /\ vq' = [vq EXCEPT ![d][q].avail = Append(@, len)]
    /\ last' = [NoCall EXCEPT !.op = "guest_post", !.dev = d]
    /\ UNCHANGED <<vi, heap, fdtab, grab, nonblock, mev, pci, trace, call,
                   hostev, produced, intr>>
    /\ UNCHANGED <<running, lock>>

----------------------------------------------------------------------------
(* Handlers in flight. Guest accesses arrive on the vCPU threads: the      *)
(* virtio framework takes vi->base.mtx, calls the handler and releases     *)
(* the mutex. The event loop thread calls the readiness callback           *)
(* directly. A thread runs one handler at a time, so the recursion of the  *)
(* mutex is never used.                                                    *)

Threads == {"vcpu0", "vcpu1", "mevent"}

Idle == [op |-> "none", dev |-> 0, pc |-> "idle", locked |-> FALSE]

NoOwner == "none"

VcpuOps ==
    {"virtio_input_notify_event_vq", "virtio_input_notify_status_vq",
     "virtio_input_cfgread", "virtio_input_cfgwrite"}

OpsOf(t) == IF t = "mevent" THEN {"virtio_input_read_event"} ELSE VcpuOps

\* The read outcomes the body of op can meet on slot d.
OutcomesOf(op, d) ==
    IF op = "virtio_input_read_event"
    THEN {rd \in ReadOutcomes : ReadGives(d, rd)}
    ELSE {"none"}

\* What the body of handler op leaves of [v, q, intr, hostev].
body_result(op, io) ==
    CASE op = "virtio_input_notify_event_vq" -> notify_event_vq_result(io)
      [] op = "virtio_input_notify_status_vq" -> notify_status_vq_result(io)
      [] op = "virtio_input_read_event" -> read_event_result(io)
      [] op = "virtio_input_cfgwrite" ->
             [io EXCEPT !.v.cfg = cfgwrite_result(@, 0, 1, 1)]
      [] OTHER -> io

\* pthread_mutex_lock(vi->base.mtx) by the framework, then the call. On a
\* mutex whose pthread_mutex_init failed the lock may or may not exclude.
Dispatch(t, op, d) ==
    /\ running[t] = Idle
    /\ Attached(d)
    /\ op \in OpsOf(t)
    /\ op = "virtio_input_read_event" => Registered(d)
    /\ \E got \in BOOLEAN :
          /\ t = "mevent" => ~got
          /\ (t # "mevent" /\ vi[d].mtx = "init") => got
          /\ got => lock[d] = NoOwner
          /\ lock' = IF got THEN [lock EXCEPT ![d] = t] ELSE lock
          /\ running' = [running EXCEPT ![t] =
                            [op |-> op, dev |-> d, pc |-> "body", locked |-> got]]
    /\ UNCHANGED <<vi, heap, fdtab, grab, nonblock, mev, pci, trace, call,
                   hostev, produced, vq, intr, last>>

\* The body of the handler a thread is running.
Body(t) ==
    /\ running[t].pc = "body"
    /\ LET op == running[t].op
           d == running[t].dev
       IN  \E rd \in OutcomesOf(op, d) :
              /\ Handle(d, body_result(op, [IoOf(d) EXCEPT !.rd = rd]))
              /\ last' = [Returned(op, d) EXCEPT !.rd = rd]
    /\ running' = [running EXCEPT ![t].pc = "done"]
    /\ UNCHANGED lock

\* The handler returns; the framework releases the mutex it took.
Return(t) ==
    /\ running[t].pc = "done"
    /\ lock' = IF running[t].locked
               THEN [lock EXCEPT ![running[t].dev] = NoOwner]
               ELSE lock
    /\ running' = [running EXCEPT ![t] = Idle]
    /\ UNCHANGED <<vi, heap, fdtab, grab, nonblock, mev, pci, trace, call,
                   hostev, produced, vq, intr, last>>

----------------------------------------------------------------------------

Init ==
    /\ vi = [d \in Slots |-> NoVi]
    /\ heap = {}
    /\ fdtab \in {[f \in FDs |-> IF f = 0 THEN x ELSE Closed] : x \in {Stdio, Closed}}
    /\ grab = [p \in EvdevFiles |-> -1]
    /\ nonblock = [f \in FDs |-> FALSE]
    /\ mev = {}
    /\ pci = [d \in Slots |-> NoPci]
    /\ trace = [d \in Slots |-> <<>>]
    /\ call = [d \in Slots |-> NotCalled]
    /\ hostev = [p \in EvdevFiles |-> <<>>]
    /\ produced = [p \in EvdevFiles |-> <<>>]
    /\ vq = [d \in Slots |-> [q \in Queues |-> [avail |-> <<>>, used |-> <<>>]]]
    /\ intr = [d \in Slots |-> [q \in Queues |-> 0]]
    /\ last = NoCall
    /\ running = [t \in Threads |-> Idle]
    /\ lock = [d \in Slots |-> NoOwner]

\* Option strings of the attaches that compete for the host devices.
AttachOpts == {<<"a">>, <<"a", "a">>, <<"a", ",", "a">>}

\* Attach of every slot, with a failure at any step.
Attach ==
    \E d \in Slots, opts \in AttachOpts, inj \in FailPoints :
        virtio_input_init(d, opts, inj, TRUE, TRUE)

Next == Attach

Spec == Init /\ [][Next]_vars

\* Attach of one slot with every options string and every platform outcome.
AttachAny ==
    \E opts \in Strings \cup {NULL}, inj \in FailPoints,
       mutex_ok \in BOOLEAN, setfl_ok \in BOOLEAN :
        virtio_input_init(1, opts, inj, mutex_ok, setfl_ok)

NextAttach == AttachAny

SpecAttach == Init /\ [][NextAttach]_vars

\* One attached device and the guest's control accesses to it.
AttachGood == \E opts \in AttachOpts : virtio_input_init(1, opts, "none", TRUE, TRUE)

CfgOffsets == {0, 1, 2, 8}
CfgValues == {0, 1, 255}

Control ==
    \E d \in Slots :
        \/ virtio_input_reset(d)
        \/ \E x \in SUBSET FeatureBits : virtio_input_neg_features(d, x)
        \/ \E st \in {0, 1} : virtio_input_set_status(d, st)
        \/ \E o \in CfgOffsets, v \in CfgValues : virtio_input_cfgread(d, o, 1, v)
        \/ \E o \in CfgOffsets, v \in CfgValues : virtio_input_cfgwrite(d, o, 1, v)

NextCtl == AttachGood \/ Control

SpecCtl == Init /\ [][NextCtl]_vars

\* One attached device, the host's event stream and the guest's queues.
AttachOne == virtio_input_init(1, <<"a">>, "none", TRUE, TRUE)

Pump ==
    \/ \E ev \in Events : HostProduce(<<"a">>, ev)
    \/ \E d \in Slots, len \in DescLens :
          GuestPost(d, VIRTIO_INPUT_EVENT_QUEUE, len)
    \/ \E d \in Slots : GuestPost(d, VIRTIO_INPUT_STATUS_QUEUE, 8)
    \/ \E d \in Slots : virtio_input_notify_event_vq(d)
    \/ \E d \in Slots : virtio_input_notify_status_vq(d)
    \/ \E d \in Slots, rd \in ReadOutcomes : virtio_input_read_event(d, rd)

NextIO == AttachOne \/ Pump

SpecIO == Init /\ [][NextIO]_vars

\* One attached device, its event stream and callback, and detach.
Detach ==
    \/ \E ev \in Events : HostProduce(<<"a">>, ev)
    \/ \E d \in Slots, rd \in ReadOutcomes : virtio_input_read_event(d, rd)
    \/ \E d \in Slots : virtio_input_deinit(d)

NextDetach == AttachOne \/ Detach

SpecDetach == Init /\ [][NextDetach]_vars

\* One slot through its whole life: attach with every platform outcome,
\* reset, the readiness callback and detach.
AttachLife ==
    \E opts \in AttachOpts, inj \in FailPoints,
       mutex_ok \in BOOLEAN, setfl_ok \in BOOLEAN :
        virtio_input_init(1, opts, inj, mutex_ok, setfl_ok)

Life ==
    \E d \in Slots :
        \/ virtio_input_reset(d)
        \/ \E rd \in ReadOutcomes : virtio_input_read_event(d, rd)
        \/ virtio_input_deinit(d)

NextLife == AttachLife \/ Life

SpecLife == Init /\ [][NextLife]_vars

\* One attached device with handlers in flight on three threads.
AttachConc ==
    \E mutex_ok \in BOOLEAN : virtio_input_init(1, <<"a">>, "none", mutex_ok, TRUE)

Conc ==
    \/ HostProduce(<<"a">>, EV_KEY)
    \/ \E t \in Threads, d \in Slots : \E op \in OpsOf(t) : Dispatch(t, op, d)
    \/ \E t \in Threads : Body(t)
    \/ \E t \in Threads : Return(t)

NextConc == AttachConc \/ Conc

SpecConc == Init /\ [][NextConc]_vars

----------------------------------------------------------------------------
(* Properties *)

InitReturned(d) == last.op = "virtio_input_init" /\ last.dev = d

\* C1: whenever attach returns a failure, everything it had acquired is
\* released: no instance, no heap object, no readiness callback, no link
\* from the PCI/virtio framework, and the descriptor it opened is closed.
C1_FailedAttachReleasesAll ==
    \A d \in Slots :
        (InitReturned(d) /\ call[d].rc # 0) =>
            /\ ~vi[d].alloc
            /\ {h \in heap : h[1] = d} = {}
            /\ {e \in mev : e.arg = d} = {}
            /\ ~pci[d].arg
            /\ call[d].fd >= 0 => fdtab[call[d].fd] = Closed

\* The instances that exist on host device p.
Owners(p) == {d \in Slots : vi[d].alloc /\ vi[d].evdev = p}

\* The descriptor, the grab and the callback registration of instance e.
Intact(e) ==
    /\ fdtab[vi[e].fd] = vi[e].evdev
    /\ grab[vi[e].evdev] = vi[e].fd
    /\ [fd |-> vi[e].fd, arg |-> e] \in mev

\* C2: at most one instance owns a host device; an attach on a device that
\* another instance holds fails, creates no device, and leaves the holder's
\* descriptor, grab and callback registration as they were.
C2_ExclusiveOwner ==
    /\ \A p \in EvdevFiles : Cardinality(Owners(p)) <= 1
    /\ \A d \in Slots, e \in Slots :
          (/\ InitReturned(d)
           /\ e # d
           /\ vi[e].alloc
           /\ call[d].opts # NULL
           /\ vi[e].evdev = strsep_token(call[d].opts)) =>
              /\ call[d].rc # 0
              /\ ~vi[d].alloc
              /\ ~pci[d].arg
              /\ {m \in mev : m.arg = d} = {}
              /\ Intact(e)

\* C2 witness: the second attach got as far as the exclusive grab, was
\* refused and closed its own descriptor; the first is still attached.
C2_Witness ==
    \E d \in Slots, e \in Slots :
        /\ InitReturned(d) /\ e # d
        /\ call[e].rc = 0 /\ vi[e].alloc /\ vi[e].evdev = <<"a">>
        /\ call[d].opts = <<"a", ",", "a">> /\ call[d].rc = -1
        /\ trace[d] = <<"calloc_vi", "strdup_evdev", "strdup_serial", "open",
                        "close", "free_serial", "free_evdev", "free_vi">>

\* An options string with no host-device path in it.
NoPath(opts) == opts = NULL \/ opts = <<>> \/ opts[1] = ","

\* C3: an attach with a missing specification or one without a path fails
\* and never registers a readiness callback; a specification
\* '<path>,<serial>' is stored as the text before the first comma (path)
\* and the text after it (serial).
C3_Specification ==
    \A d \in Slots :
        call[d].called =>
            /\ NoPath(call[d].opts) =>
                  /\ call[d].rc # 0
                  /\ \A i \in 1..Len(trace[d]) : trace[d][i] # "mevent_add"
                  /\ {m \in mev : m.arg = d} = {}
            /\ vi[d].alloc =>
                  /\ \A i \in 1..Len(vi[d].evdev) : vi[d].evdev[i] # ","
                  /\ call[d].opts =
                        IF vi[d].serial = NULL THEN vi[d].evdev
                        ELSE vi[d].evdev \o <<",">> \o vi[d].serial

\* C3 witness: 'a,,' attached with path 'a' and serial ','.
C3_Witness ==
    /\ call[1].opts = <<"a", ",", ",">> /\ call[1].rc = 0
    /\ vi[1].alloc /\ vi[1].evdev = <<"a">> /\ vi[1].serial = <<",">>

NegReturned(d) == last.op = "virtio_input_neg_features" /\ last.dev = d

\* C4: negotiate_features(x) stores exactly x intersected with the offered
\* capabilities as the device's negotiated feature set.
C4_NegotiatedIsIntersection ==
    \A d \in Slots :
        NegReturned(d) =>
            vi[d].features = last.features \cap VIRTIO_INPUT_S_HOSTCAPS

C6_Reset ==
    [][/\ last'.op = "virtio_input_reset" =>
            /\ vi'[last'.dev].features = {}
            /\ vi'[last'.dev].event_qindex = 0
            /\ vi'[last'.dev].cfg.select = VIRTIO_INPUT_CFG_UNSET
            /\ fdtab'[vi'[last'.dev].fd] = vi'[last'.dev].evdev
            /\ mev' = mev
       /\ (/\ last.op = "virtio_input_reset"
           /\ last'.op = "virtio_input_cfgread"
           /\ last'.dev = last.dev
           /\ last'.offset >= 2) => last'.val = 0]_vars

EVQ(d) == vq[d][VIRTIO_INPUT_EVENT_QUEUE]
STQ(d) == vq[d][VIRTIO_INPUT_STATUS_QUEUE]

UsedEvents(d) == [i \in 1..Len(EVQ(d).used) |-> EVQ(d).used[i].event]

Posted(d) == Len(EVQ(d).used) + Len(EVQ(d).avail)

\* The readiness callback has returned, its read having found whole records.
ReadReturned(d) ==
    last.op = "virtio_input_read_event" /\ last.dev = d /\ last.rd = "record"

\* The stream of the device is one batch: its only marker is its last event.
OneBatch(s) == Len(s) >= 1 /\ s[Len(s)] = EV_SYN /\ SynCount(s) = 1

\* C7: a batch that ends in a synchronization marker, fits the staging
\* buffer and finds enough descriptors reaches the guest's event queue as
\* the same events in the same order, and the staging buffer is empty after
\* the flush.
C7_BatchDelivered ==
    \A d \in Slots :
        ReadReturned(d) =>
            LET s == produced[vi[d].evdev]
            IN  (/\ OneBatch(s)
                 /\ Len(s) <= vi[d].event_qsize
                 /\ Posted(d) >= Len(s)
                 /\ \A i \in 1..Len(EVQ(d).avail) : EVQ(d).avail[i] >= 8) =>
                    /\ UsedEvents(d) = s
                    /\ vi[d].event_qindex = 0

\* C8: the write cursor never exceeds the capacity, and when one more event
\* than the capacity arrives without a marker the staged events are flushed
\* early (none is discarded): only the overflowing event stays staged.
C8_OverflowFlushedEarly ==
    \A d \in Slots :
        ReadReturned(d) =>
            LET s == produced[vi[d].evdev]
            IN  /\ vi[d].event_qindex <= vi[d].event_qsize
                /\ (Len(s) = vi[d].event_qsize + 1 /\ SynCount(s) = 0) =>
                      /\ hostev[vi[d].evdev] = <<>>
                      /\ vi[d].event_qindex = 1
                      /\ Posted(d) >= 1 => Len(EVQ(d).used) >= 1

\* C9: draining a batch of K events against J < K available descriptors
\* (J >= 1) writes the first J events into J descriptors, marks them used and raises
\* exactly one notification.
C9_ShortQueueDrain ==
    \A d \in Slots :
        ReadReturned(d) =>
            LET s == produced[vi[d].evdev]
            IN  (/\ OneBatch(s)
                 /\ Len(s) <= vi[d].event_qsize
                 /\ Posted(d) >= 1
                 /\ Posted(d) < Len(s)
                 /\ \A i \in 1..Len(EVQ(d).avail) : EVQ(d).avail[i] >= 8) =>
                    /\ EVQ(d).avail = <<>>
                    /\ UsedEvents(d) = SubSeq(s, 1, Posted(d))
                    /\ intr[d][VIRTIO_INPUT_EVENT_QUEUE] = 1

\* C10: when the status-queue notify handler returns, every descriptor the
\* guest posted on the status queue has been acknowledged (marked used),
\* and the handler has touched neither the host device nor the staging
\* buffer.
C10_StatusAcknowledged ==
    \A d \in Slots :
        (last.op = "virtio_input_notify_status_vq" /\ last.dev = d) =>
            /\ STQ(d).avail = <<>>
            /\ vi[d].event_qindex = 0
            /\ fdtab[vi[d].fd] = vi[d].evdev

\* C11: the event-queue notify handler changes no device state: the
\* instance (staging buffer, cursor, features, configuration), the queues,
\* the notification counts and the unread host events are as before, so it
\* delivers nothing that was not delivered when it was produced.
C11_EventNotifyIsNoOp ==
    [][last'.op = "virtio_input_notify_event_vq" =>
          /\ vi' = vi
          /\ vq' = vq
          /\ intr' = intr
          /\ hostev' = hostev]_vars

\* C11 witness: the handler has run while events that reached no descriptor
\* were pending and the guest had made a descriptor available.
C11_Witness ==
    \E d \in Slots :
        /\ last.op = "virtio_input_notify_event_vq" /\ last.dev = d
        /\ EVQ(d).avail # <<>>
        /\ EVQ(d).used = <<>>
        /\ produced[vi[d].evdev] = <<EV_KEY, EV_SYN>>

\* C12: a configuration read of the size or of the payload while the
\* selector is unset returns 0.
C12_UnsetReadsZero ==
    \A d \in Slots :
        (/\ last.op = "virtio_input_cfgread" /\ last.dev = d
         /\ vi[d].cfg.select = VIRTIO_INPUT_CFG_UNSET
         /\ last.offset >= 2) => last.val = 0

DeinitReturned(d) == last.op = "virtio_input_deinit" /\ last.dev = d

\* C13: after detach the readiness callback is unregistered (so that no
\* invocation of it can start), the host descriptor is closed and the
\* staging buffer and the strings are released.
C13_DetachReleases ==
    \A d \in Slots :
        DeinitReturned(d) =>
            /\ {e \in mev : e.arg = d} = {}
            /\ fdtab[call[d].fd] = Closed
            /\ {h \in heap : h[1] = d} = {}

ReleaseOps ==
    {"mutex_destroy", "free_event_queue", "mevent_delete", "close",
     "free_serial", "free_evdev", "free_vi"}

Count(tr, op) == Cardinality({i \in 1..Len(tr) : tr[i] = op})

\* C14: over any sequence of detach calls each resource is released at most
\* once, and a detach that follows a detach changes nothing.
C14_DetachIdempotent ==
    [][/\ \A d \in Slots, op \in ReleaseOps : Count(trace'[d], op) <= 1
       /\ \A d \in Slots :
            (call[d].deinits >= 1 /\ call'[d].deinits = call[d].deinits + 1) =>
                /\ vi' = vi
                /\ heap' = heap
                /\ fdtab' = fdtab
                /\ grab' = grab
                /\ mev' = mev
                /\ trace' = trace]_vars

\* C14 witness: detach has returned for the second time on one device.
C14_Witness ==
    \E d \in Slots : DeinitReturned(d) /\ call[d].deinits = 2

\* C15: whatever length the guest reports for a descriptor, the bytes the
\* backend has written into it do not exceed that length.
C15_WritesWithinDescriptor ==
    \A d \in Slots, q \in Queues :
        \A i \in 1..Len(vq[d][q].used) :
            vq[d][q].used[i].len <= vq[d][q].used[i].cap

\* C15 witness: the readiness callback has run with an event to deliver
\* while the descriptor the guest offered was shorter than an event record.
C15_Witness ==
    \E d \in Slots :
        /\ ReadReturned(d)
        /\ produced[vi[d].evdev] = <<EV_SYN>>
        /\ EVQ(d).avail \o [i \in 1..Len(EVQ(d).used) |-> EVQ(d).used[i].cap]
              = <<4>>

\* The acquisition each release of the fail label undoes.
Acquired(op) ==
    CASE op = "mutex_destroy" -> "mutex_init"
      [] op = "free_event_queue" -> "calloc_event_queue"
      [] op = "mevent_delete" -> "mevent_add"
      [] op = "close" -> "open"
      [] op = "free_serial" -> "strdup_serial"
      [] op = "free_evdev" -> "strdup_evdev"
      [] op = "free_vi" -> "calloc_vi"

Before(tr, a, b) ==
    \A i \in 1..Len(tr), j \in 1..Len(tr) : (tr[i] = a /\ tr[j] = b) => i < j

\* C16: on an attach failure the releases run in the reverse of the order
\* of the acquisitions; in particular the readiness callback is unregistered
\* before the staging buffer is freed and before the lock is destroyed.
C16_ReverseOrderTeardown ==
    \A d \in Slots :
        (call[d].called /\ call[d].rc # 0) =>
            /\ \A r1 \in ReleaseOps, r2 \in ReleaseOps :
                  (/\ r1 # r2
                   /\ Count(trace[d], r1) = 1
                   /\ Count(trace[d], r2) = 1
                   /\ Before(trace[d], r1, r2)) =>
                      Before(trace[d], Acquired(r2), Acquired(r1))
            /\ Before(trace[d], "mevent_delete", "free_event_queue")
            /\ Before(trace[d], "mevent_delete", "mutex_destroy")

\* C17: after a successful attach the host descriptor of the device is in
\* non-blocking mode, whatever the calls on the descriptor's flags returned.
C17_DescriptorNonBlocking ==
    \A d \in Slots : Attached(d) => nonblock[vi[d].fd]

\* C18: after a successful attach the device has a staging buffer of
\* capacity 10 holding nothing (write cursor 0), a readiness callback
\* registered on its open host descriptor, and exactly two virtqueues of
\* ring size 64: queue 0 bound to the event-queue notify handler and queue 1
\* to the status-queue notify handler.
C18_AttachedDevice ==
    \A d \in Slots :
        Attached(d) =>
            /\ vi[d].event_queue # NULL
            /\ Len(vi[d].event_queue) = 10
            /\ vi[d].event_qsize = 10
            /\ vi[d].event_qindex = 0
            /\ fdtab[vi[d].fd] = vi[d].evdev
            /\ [fd |-> vi[d].fd, arg |-> d] \in mev
            /\ DOMAIN vi[d].queues = {0, 1}
            /\ \A q \in DOMAIN vi[d].queues : vi[d].queues[q].qsize = 64
            /\ vi[d].queues[0].notify = "virtio_input_notify_event_vq"
            /\ vi[d].queues[1].notify = "virtio_input_notify_status_vq"

\* C18 witness: attach of 'a,a' has just returned 0.
C18_Witness ==
    /\ InitReturned(1)
    /\ call[1].opts = <<"a", ",", "a">>
    /\ call[1].rc = 0
    /\ vi[1].alloc

\* C19: a write of the selector or of the sub-selector is stored, and the
\* size a read returns is the size stored for the current (select, subsel)
\* pair.
C19_SelectorConsistent ==
    \A d \in Slots :
        /\ (last.op = "virtio_input_cfgwrite" /\ last.dev = d) =>
              /\ last.offset = 0 => vi[d].cfg.select = last.val
              /\ last.offset = 1 => vi[d].cfg.subsel = last.val
        /\ (last.op = "virtio_input_cfgread" /\ last.dev = d
            /\ last.offset = 2) => last.val = vi[d].cfg.size

\* C20: when the read of the host descriptor would block or gives less than
\* one record, the readiness callback appends nothing to the staging
\* buffer, delivers nothing to the guest and leaves the device attached,
\* registered and open.
C20_NoEventFromPartialRead ==
    [][(/\ last'.op = "virtio_input_read_event"
        /\ last'.rd \in {"short", "wouldblock"}) =>
           /\ vi' = vi
           /\ vq' = vq
           /\ intr' = intr
           /\ call' = call
           /\ mev' = mev
           /\ fdtab' = fdtab]_vars

\* C20 witness: the callback has returned from a short read while a
\* descriptor was available on the event queue.
C20_Witness ==
    \E d \in Slots :
        /\ last.op = "virtio_input_read_event" /\ last.dev = d
        /\ last.rd = "short"
        /\ EVQ(d).avail = <<8>>
        /\ vi[d].event_qindex = 0

\* C21: once the readiness callback has returned from a read that gave a
\* hard I/O error, the device is detached: its callback is no longer
\* registered and the descriptor attach opened is closed.
C21_HardErrorDetaches ==
    \A d \in Slots :
        (/\ last.op = "virtio_input_read_event" /\ last.dev = d
         /\ last.rd = "error") =>
            /\ ~Registered(d)
            /\ \A e \in mev : e.arg # d
            /\ fdtab[call[d].fd] = Closed

\* The lifecycle state of a slot as the framework sees it: what
\* virtio_input_init returned and whether virtio_input_deinit has been
\* called. OPENING and RESETTING last for the run of virtio_input_init and
\* of virtio_input_reset, which are single steps here.
Lifecycle(d) ==
    IF ~call[d].called THEN "UNINITIALIZED"
    ELSE IF call[d].rc # 0 THEN "FAILED"
    ELSE IF call[d].deinits > 0 THEN "CLOSED"
    ELSE "READY"

\* Every step of attach has taken effect on the instance of slot d.
StepsSucceeded(d) ==
    /\ vi[d].alloc
    /\ vi[d].evdev \in EvdevFiles
    /\ vi[d].fd \in FDs
    /\ fdtab[vi[d].fd] = vi[d].evdev
    /\ nonblock[vi[d].fd]
    /\ grab[vi[d].evdev] = vi[d].fd
    /\ vi[d].mtx = "init"
    /\ vi[d].event_queue # NULL
    /\ Registered(d)
    /\ pci[d] = [arg |-> TRUE, cfgdata |-> TRUE, intr |-> TRUE, modern_bar |-> TRUE]

\* C22: the lifecycle takes only the listed transitions: FAILED is entered
\* only by an attach and is never left, READY is entered only by an attach
\* of which every step succeeded (or is kept across a reset), and CLOSED is
\* never left.
C22_LifecycleTransitions ==
    [][\A d \in Slots :
          /\ (Lifecycle(d)' = "FAILED" /\ Lifecycle(d) # "FAILED") =>
                 (Lifecycle(d) = "UNINITIALIZED" /\ last'.op = "virtio_input_init")
          /\ Lifecycle(d) = "FAILED" => Lifecycle(d)' = "FAILED"
          /\ (Lifecycle(d)' = "READY" /\ Lifecycle(d) # "READY") =>
                 /\ Lifecycle(d) = "UNINITIALIZED"
                 /\ last'.op = "virtio_input_init"
                 /\ StepsSucceeded(d)'
          /\ Lifecycle(d) = "CLOSED" => Lifecycle(d)' = "CLOSED"]_vars

\* The fail label of virtio_input_init has run for slot d.
FailLabelRan(d) ==
    /\ InitReturned(d)
    /\ call[d].rc # 0
    /\ trace[d] # <<>>
    /\ trace[d][Len(trace[d])] = "free_vi"

\* C24: on the attach failure path the descriptor is closed exactly when
\* attach had opened it, whatever its value (descriptor 0 included), and
\* nothing is closed when open was not reached or failed.
C24_FailPathClosesIffOpened ==
    \A d \in Slots :
        FailLabelRan(d) =>
            /\ call[d].fd >= 0 =>
                   /\ Count(trace[d], "close") = 1
                   /\ fdtab[call[d].fd] = Closed
            /\ call[d].fd < 0 => Count(trace[d], "close") = 0

\* Thread t is in the body of a handler that writes the device state.
Mutating(t) ==
    /\ running[t].pc = "body"
    /\ \E rd \in OutcomesOf(running[t].op, running[t].dev) :
          LET io == [IoOf(running[t].dev) EXCEPT !.rd = rd]
          IN  body_result(running[t].op, io) # io

\* C23: on one device at most one handler is mutating the device state at
\* a time, and a handler that is mutating it holds the device's
\* initialised lock.
C23_MutualExclusion ==
    /\ \A t \in Threads :
          Mutating(t) =>
              /\ running[t].locked
              /\ lock[running[t].dev] = t
              /\ vi[running[t].dev].mtx = "init"
    /\ \A t1 \in Threads, t2 \in Threads :
          (t1 # t2 /\ running[t1].dev = running[t2].dev) =>
              ~(Mutating(t1) /\ Mutating(t2))

\* C23 witness: a queue notify handler holding the lock and the readiness
\* callback, with an event to read, are in their bodies at the same time.
C23_Witness ==
    \E d \in Slots :
        /\ running["vcpu0"] = [op |-> "virtio_input_notify_event_vq", dev |-> d,
                               pc |-> "body", locked |-> TRUE]
        /\ lock[d] = "vcpu0"
        /\ running["mevent"].pc = "body"
        /\ running["mevent"].dev = d
        /\ Readable(d)

====
